---- MODULE Spec2Model ----
(***************************************************************************)
(* The log collector (Ui6/Server, Ui3/Server and the unnamed server        *)
(* variants) and the log producer (Ui4/Client) of TerminalUI.              *)
(*                                                                         *)
(* Text is a sequence of one-character strings, so that the substring      *)
(* tests, the line scanner and the colour markup are computed as the code  *)
(* computes them.  Time is counted in seconds.                             *)
(***************************************************************************)
EXTENDS Integers, Sequences, FiniteSets, TLC

(***************************************************************************)
(* Bounds of the model.                                                    *)
(***************************************************************************)
MaxSock == 2
MaxPeerSteps == 4
MaxTime == 4
MaxBeats == 2
MaxKeys == 3
MaxLimit == 2
MaxChunks == 3
MaxPending == 2

(***************************************************************************)
(* Program constants.                                                      *)
(***************************************************************************)
heartbeat == <<"_", "H", "E", "A", "R", "T", "B", "E", "A", "T", "_">>
heartbeatTimer == 3
logLimit == 50
Nil == 0

Variants == {"Ui6", "Ui3", "part_000"}

(***************************************************************************)
(* Text helpers.                                                           *)
(***************************************************************************)
CR == "\r"
Empty == <<>>
InfoMsg == <<"I", "N", "F", "O">>
WarningWord == <<"W", "A", "R", "N", "I", "N", "G">>
ErrorWord == <<"E", "R", "R", "O", "R">>

\* strings.Contains
Contains(s, sub) ==
    \E i \in 0..(Len(s) - Len(sub)) :
        \A j \in 1..Len(sub) : s[i + j] = sub[j]

\* bufio.dropCR: one trailing carriage return is removed from a token
dropCR(data) ==
    IF Len(data) > 0 /\ data[Len(data)] = CR
    THEN SubSeq(data, 1, Len(data) - 1)
    ELSE data

Green == <<"[", "g", "r", "e", "e", "n", "]">>
Yellow == <<"[", "y", "e", "l", "l", "o", "w", "]">>
Red == <<"[", "r", "e", "d", "]">>
White == <<"[", "w", "h", "i", "t", "e", "]">>

\* the switch with the case for ERROR first
colorizeLogErrorFirst(log) ==
    IF Contains(log, ErrorWord) THEN Red \o log \o White
    ELSE IF Contains(log, InfoMsg) THEN Green \o log \o White
    ELSE IF Contains(log, WarningWord) THEN Yellow \o log \o White
    ELSE log

colorizeLog(log) ==
    IF Contains(log, InfoMsg) THEN Green \o log \o White
    ELSE IF Contains(log, WarningWord) THEN Yellow \o log \o White
    ELSE IF Contains(log, ErrorWord) THEN Red \o log \o White
    ELSE log

(***************************************************************************)
(* strings.ToUpper and strings.ToLower, on the letters of ASCII.           *)
(***************************************************************************)
LowerLetters ==
    <<"a", "b", "c", "d", "e", "f", "g", "h", "i", "j", "k", "l", "m",
      "n", "o", "p", "q", "r", "s", "t", "u", "v", "w", "x", "y", "z">>
UpperLetters ==
    <<"A", "B", "C", "D", "E", "F", "G", "H", "I", "J", "K", "L", "M",
      "N", "O", "P", "Q", "R", "S", "T", "U", "V", "W", "X", "Y", "Z">>

Letters(from) == {from[i] : i \in 1..Len(from)}
CaseMap(from, to) ==
    [c \in Letters(from) |-> to[CHOOSE i \in 1..Len(from) : from[i] = c]]

UpperOf == CaseMap(LowerLetters, UpperLetters)
LowerOf == CaseMap(UpperLetters, LowerLetters)

ToUpper(s) ==
    [i \in 1..Len(s) |-> IF s[i] \in DOMAIN UpperOf THEN UpperOf[s[i]]
                         ELSE s[i]]
ToLower(s) ==
    [i \in 1..Len(s) |-> IF s[i] \in DOMAIN LowerOf THEN LowerOf[s[i]]
                         ELSE s[i]]

(***************************************************************************)
(* The queries of the log managers.  Ui3/Server has a filter query and a   *)
(* search query; Ui6/Server has one query that takes both.                 *)
(***************************************************************************)
AllWord == <<"A", "L", "L">>

\* logManager.GetFilteredLogs (Ui3)
GetFilteredLogs(l, filter) ==
    IF filter = AllWord THEN l
    ELSE SelectSeq(l, LAMBDA log : Contains(ToUpper(log), ToUpper(filter)))

\* the search query with the branch for the empty query answering nothing
GetSearchFilteredLogsNone(l, query) ==
    SelectSeq(l, LAMBDA log :
        query # Empty /\ Contains(ToLower(log), ToLower(query)))

\* logManager.GetSearchFilteredLogs (Ui3)
GetSearchFilteredLogs(l, query) ==
    IF query = Empty THEN l
    ELSE SelectSeq(l, LAMBDA log : Contains(ToLower(log), ToLower(query)))

\* the query of Ui6 with either predicate enough
LogManager_GetSearchFilteredLogsAny(l, query, logType) ==
    SelectSeq(l, LAMBDA log :
        \/ Contains(ToUpper(log), ToUpper(logType))
        \/ query = Empty
        \/ Contains(ToLower(log), ToLower(query)))

\* LogManager.GetSearchFilteredLogs (Ui6)
LogManager_GetSearchFilteredLogs(l, query, logType) ==
    SelectSeq(l, LAMBDA log :
        /\ Contains(ToUpper(log), ToUpper(logType))
        /\ (query = Empty \/ Contains(ToLower(log), ToLower(query))))

(***************************************************************************)
(* What the operator of the collector may ask for, and the lines a peer    *)
(* sends while the queries are looked at.                                  *)
(***************************************************************************)
LowInfo == <<"i", "n", "f", "o">>
InfoError == <<"I", "N", "F", "O", " ", "E", "R", "R", "O", "R">>
GreenWord == <<"g", "r", "e", "e", "n">>

Filters == {AllWord, InfoMsg, WarningWord, ErrorWord}
LogTypes == {InfoMsg, WarningWord, ErrorWord}
Queries == {Empty, GreenWord}
StoreLines == {InfoError, LowInfo, ErrorWord}

(***************************************************************************)
(* What a peer of the collector may put on a connection: complete lines    *)
(* (the text between two newlines) and, as the last thing before the       *)
(* stream ends, a fragment with no newline after it.                       *)
(***************************************************************************)
PeerLines == {heartbeat, InfoMsg}
FrameLines == PeerLines \cup {heartbeat \o <<CR>>, Empty}
PeerFragments == {heartbeat, InfoMsg}

Sock == 1..MaxSock

VARIABLES
    variant,        \* which collector source is running
    now,            \* the clock, in seconds
    conn,           \* ConnectionState.conn (Nil or a socket)
    alive,          \* ConnectionState.alive
    lastHeartbeat,  \* ConnectionState.lastHeartbeat
    showEmoji,      \* monitorConnection's blink phase
    uiConnected,    \* what the status line last showed
    logs,           \* LogManager.logs
    backlog,        \* connections dialled and not yet returned by ln.Accept
    nSock,          \* connections dialled so far
    closeCount,     \* how often the collector called Close on each socket
    eof,            \* the peer's end is closed or the connection broke
    nPeer,          \* steps taken by the collector's peers so far
    wire,           \* data written by the peer and not yet read
    buf,            \* data read into the bufio.Scanner and not yet scanned
    rpc,            \* where handleClient(s) is: none, scan, msg, done
    msg,            \* the token scanner.Text() returned to handleClient(s)
    rcvd,           \* history: the tokens Scan returned on each socket
    logSrc,         \* history: for each entry of logs, who appended it
    lastLineAt,     \* history: when handleClient last handled a line
    demoted,        \* history: the monitor marked the installed socket stale
    pConn,          \* producer: conn (Nil or a socket)
    isConnected,    \* producer: isConnected
    hbPc,           \* producer: the heartbeat goroutine: start, idle, connect, send
    sndPc,          \* producer: the sender goroutine: select, hb
    pShowEmoji,     \* producer: the blink phase
    pStatus,        \* producer: what the status line last showed
    nBeats,         \* producer: heartbeat ticks so far
    view,           \* collector: the entries the last query returned
    viewOf,         \* history: that query and the logs it was applied to
    pLogs,          \* producer: logManager.logs, backing array and length
    pView,          \* producer: the slice the last GetLogs returned
    pViewOf,        \* history: that call's limit and the logs it saw
    keyPc,          \* producer: the key handler: idle, select
    keyMsg,         \* producer: the key handler's logMsg
    sndMsg,         \* producer: the sender's logMsg
    nKeys,          \* producer: keys pressed so far
    stopped,        \* producer: app.Stop() was called
    rpcAgain,       \* where a second handleClient on the installed socket is
    pCloseCount,    \* history: how often the producer called Close on each socket
    mpc,            \* collector: monitorConnection: tick, toggle
    pending,        \* collector: the status updates queued and not yet drawn
    drawn,          \* collector: what the status update drawn last saw
    ln,             \* collector: the listener: none, bound, failed, closed
    mainPc,         \* collector: main: start, running, stopped, closing, exited
    apc,            \* collector: the accept loop: none, accept, failed, returned
    side,           \* lock level: the process that is followed
    mu,             \* lock level: who holds each mutex
    wpc,            \* lock level: where each goroutine is on its path
    stream          \* lock level: the last chunks written on the producer's socket

vars == <<variant, now, conn, alive, lastHeartbeat, showEmoji, uiConnected,
          logs, backlog, nSock, closeCount, eof, nPeer, wire, buf, rpc, msg,
          rcvd, logSrc, lastLineAt, demoted, pConn, isConnected, hbPc, sndPc,
          pShowEmoji, pStatus, nBeats, view, viewOf, pLogs, pView, pViewOf,
          keyPc, keyMsg, sndMsg, nKeys, stopped, pCloseCount,
          rpcAgain, ln, mainPc, apc, side, mu, wpc, stream, mpc, pending, drawn>>

startVars == <<ln, mainPc, apc>>
drawVars == <<mpc, pending, drawn>>
lockVars == <<side, mu, wpc, stream>>
keyVars == <<pLogs, pView, pViewOf, keyPc, keyMsg, sndMsg, nKeys, stopped>>
prodVars == <<pConn, isConnected, hbPc, sndPc, pShowEmoji, pStatus, nBeats,
              pCloseCount, lockVars, keyVars>>
qVars == <<view, viewOf>>
collVars == <<variant, now, conn, alive, lastHeartbeat, showEmoji, uiConnected,
              logs, closeCount, buf, rpc, msg, rcvd, logSrc, lastLineAt,
              demoted, rpcAgain, startVars, drawVars, qVars>>
connVars == <<conn, alive, lastHeartbeat>>
uiVars == <<showEmoji, uiConnected>>
netVars == <<backlog, nSock, eof, nPeer, wire>>
readVars == <<buf, rpc, msg, rcvd>>

ZeroTime == 0 - (heartbeatTimer + 1)

\* no query was made yet
NoQuery == [kind |-> "none", filter |-> Empty, query |-> Empty, at |-> <<>>]

\* the producer's logs: a nil slice; no GetLogs call was made yet
NilSlice == [arr |-> <<>>, len |-> 0]
NilView == [shared |-> FALSE, off |-> 0, len |-> 0, data |-> <<>>]
NoCall == [limit |-> 0, at |-> <<>>]

\* no second handleClient was started on an installed socket
NoAgain == [on |-> Nil, pc |-> "none"]

\* the collector once net.Listen succeeded and app.Run is under way
Serving ==
    /\ ln = "bound"
    /\ mainPc = "running"
    /\ apc = "accept"

\* no status update was queued or drawn yet
NoDraw == [connected |-> FALSE, emoji |-> FALSE]

DrawInit ==
    /\ mpc = "tick"
    /\ pending = <<>>
    /\ drawn = NoDraw

(***************************************************************************)
(* The lock level: every goroutine follows one of its paths, a sequence of *)
(* lock, unlock, write and channel operations, from its loop's top and     *)
(* back to it.                                                             *)
(***************************************************************************)
Sides == {"producer", "collector"}

\* sync.Mutex values: connMutex and logManager.mu of the producer,
\* ConnectionState.mu and LogManager.mu of the collector
Locks == {"connMutex", "pLogs", "connState", "logs"}

ProducerWorkers == {"sender", "beat", "keys"}
CollectorWorkers == {"accept", "reader1", "reader2", "monitor", "ui"}
Workers == ProducerWorkers \cup CollectorWorkers

SideOf(w) == IF w \in ProducerWorkers THEN "producer" ELSE "collector"

Lock(l) == [op |-> "lock", arg |-> l]
Unlock(l) == [op |-> "unlock", arg |-> l]
Write(part) == [op |-> "write", arg |-> part]
Send(ch) == [op |-> "send", arg |-> ch]
TrySend(ch) == [op |-> "trysend", arg |-> ch]
Work(what) == [op |-> "work", arg |-> what]

\* one line written by the sender through bufio.Writer: conn.Write may
\* take it in two parts
WriteLine == <<Write("head"), Write("tail")>>

\* the sender goroutine after a receive: a line is written, or the write
\* fails and the socket is closed, or there is no connection
SenderPaths ==
    [log |-> <<Lock("connMutex")>> \o WriteLine \o <<Unlock("connMutex")>>,
     hb |-> <<Lock("connMutex")>> \o WriteLine \o <<Unlock("connMutex")>>,
     fail |-> <<Lock("connMutex"), Work("close"), Unlock("connMutex")>>,
     skip |-> <<Lock("connMutex"), Unlock("connMutex")>>]

\* the heartbeat goroutine: a heartbeat tick whose probe is written, one
\* whose probe fails and is followed by connect(), and a blink tick
BeatPaths ==
    [tick |-> <<Lock("connMutex"), Write("whole"), Unlock("connMutex"),
                Send("heartbeatChan")>>,
     redial |-> <<Lock("connMutex"), Work("close"), Unlock("connMutex"),
                  Lock("connMutex"), Work("dial"), Unlock("connMutex"),
                  Send("heartbeatChan")>>,
     blink |-> <<Work("status")>>]

\* AddLog and updateLogsView, each under logManager.mu
AddAndDraw == <<Lock("pLogs"), Work("append"), Unlock("pLogs"),
                Lock("pLogs"), Work("GetLogs"), Unlock("pLogs")>>

\* the input capture: a key refused, a log key, and the default branch of
\* the select on logChan
KeysPaths ==
    [rejected |-> AddAndDraw,
     log |-> AddAndDraw \o <<TrySend("logChan")>>,
     unsent |-> AddAndDraw]

\* the accept loop's critical section
AcceptPaths ==
    [accept |-> <<Lock("connState"), Work("close"), Work("install"),
                  Unlock("connState")>>]

\* handleClient: a heartbeat, a log line, and the deferred function
ReaderPathsNested ==
    [heartbeat |-> <<Lock("connState"), Work("alive"), Unlock("connState")>>,
     log |-> <<Lock("connState"), Lock("logs"), Work("append"),
               Unlock("logs"), Unlock("connState")>>,
     exit |-> <<Lock("connState"), Work("close"), Unlock("connState")>>]

ReaderPaths ==
    [heartbeat |-> <<Lock("connState"), Work("alive"), Unlock("connState")>>,
     log |-> <<Lock("logs"), Work("append"), Unlock("logs")>>,
     exit |-> <<Lock("connState"), Work("close"), Unlock("connState")>>]

\* monitorConnection: one tick
MonitorPaths ==
    [tick |-> <<Lock("connState"), Work("stale"), Unlock("connState"),
                Work("status")>>]

\* one query of the log manager
Query == <<Lock("logs"), Work("filter"), Unlock("logs")>>

\* the function queued by updateLogSections: three queries
UiPaths == [update |-> Query \o Query \o Query]

Paths(w) ==
    CASE w = "sender" -> SenderPaths
      [] w = "beat" -> BeatPaths
      [] w = "keys" -> KeysPaths
      [] w = "accept" -> AcceptPaths
      [] w \in {"reader1", "reader2"} -> ReaderPaths
      [] w = "monitor" -> MonitorPaths
      [] w = "ui" -> UiPaths

\* the paths a goroutine takes of its own accord; the sender's begin with
\* a receive, the unsent path with the select's default
Starts(w) ==
    CASE w = "sender" -> {}
      [] w = "keys" -> {"rejected", "log"}
      [] OTHER -> DOMAIN Paths(w)

\* the paths of the receiver of each channel
RecvPaths(ch) ==
    IF ch = "logChan" THEN {"log", "fail", "skip"} ELSE {"hb", "fail", "skip"}

Idle == [path |-> "idle", at |-> 0]

LocksInit ==
    /\ side = "none"
    /\ mu = [l \in Locks |-> "free"]
    /\ wpc = [w \in Workers |-> Idle]
    /\ stream = <<>>

\* the producer before main calls connect()
ProducerInit ==
    /\ pConn = Nil
    /\ isConnected = FALSE
    /\ hbPc = "start"
    /\ sndPc = "select"
    /\ pShowEmoji = TRUE
    /\ pStatus = FALSE
    /\ pCloseCount = [s \in Sock |-> 0]
    /\ nBeats = 0
    /\ pLogs = NilSlice
    /\ pView = NilView
    /\ pViewOf = NoCall
    /\ keyPc = "idle"
    /\ keyMsg = Empty
    /\ sndMsg = Empty
    /\ nKeys = 0
    /\ stopped = FALSE

Init ==
    /\ variant = "Ui6"
    /\ now = 0
    /\ conn = Nil
    /\ alive = FALSE
    /\ lastHeartbeat = ZeroTime
    /\ showEmoji = TRUE
    /\ uiConnected = FALSE
    /\ logs = <<>>
    /\ backlog = <<>>
    /\ nSock = 0
    /\ closeCount = [s \in Sock |-> 0]
    /\ eof = [s \in Sock |-> FALSE]
    /\ nPeer = 0
    /\ wire = [s \in Sock |-> <<>>]
    /\ buf = [s \in Sock |-> <<>>]
    /\ rpc = [s \in Sock |-> "none"]
    /\ msg = [s \in Sock |-> Empty]
    /\ rcvd = [s \in Sock |-> <<>>]
    /\ logSrc = <<>>
    /\ lastLineAt = ZeroTime
    /\ demoted = FALSE
    /\ view = <<>>
    /\ viewOf = NoQuery
    /\ rpcAgain = NoAgain
    /\ Serving
    /\ DrawInit
    /\ LocksInit
    /\ ProducerInit

(***************************************************************************)
(* The clock.                                                              *)
(***************************************************************************)
Tick ==
    /\ now < MaxTime
    /\ now' = now + 1
    /\ UNCHANGED prodVars
    /\ UNCHANGED qVars
    /\ UNCHANGED rpcAgain
    /\ UNCHANGED startVars
    /\ UNCHANGED drawVars
    /\ UNCHANGED <<variant, connVars, uiVars, logs, netVars, closeCount,
                   readVars, logSrc, lastLineAt, demoted>>

(***************************************************************************)
(* The peer of the collector.                                              *)
(***************************************************************************)
Line(text) == [text |-> text, nl |-> TRUE]
Fragment(text) == [text |-> text, nl |-> FALSE]

\* peers dial one at a time: the next one once the last was accepted
PeerConnect ==
    /\ ln = "bound"
    /\ nSock < MaxSock
    /\ backlog = <<>>
    /\ nPeer < MaxPeerSteps
    /\ nPeer' = nPeer + 1
    /\ nSock' = nSock + 1
    /\ backlog' = Append(backlog, nSock + 1)
    /\ UNCHANGED prodVars
    /\ UNCHANGED qVars
    /\ UNCHANGED rpcAgain
    /\ UNCHANGED startVars
    /\ UNCHANGED drawVars
    /\ UNCHANGED <<variant, now, connVars, uiVars, logs, eof, wire,
                   closeCount, readVars, logSrc, lastLineAt, demoted>>

\* what a peer writes before its connection is accepted is read after it
\* is, so the peer is modelled as writing once handleClient runs
Writable(s) == rpc[s] # "none" /\ ~eof[s] /\ closeCount[s] = 0

PeerSend(s, text) ==
    /\ Writable(s)
    /\ nPeer < MaxPeerSteps
    /\ nPeer' = nPeer + 1
    /\ wire' = [wire EXCEPT ![s] = Append(@, Line(text))]
    /\ UNCHANGED prodVars
    /\ UNCHANGED qVars
    /\ UNCHANGED rpcAgain
    /\ UNCHANGED startVars
    /\ UNCHANGED drawVars
    /\ UNCHANGED <<variant, now, connVars, uiVars, logs, backlog, nSock, eof,
                   closeCount, readVars, logSrc, lastLineAt, demoted>>

PeerSendPartial(s, text) ==
    /\ Writable(s)
    /\ nPeer < MaxPeerSteps
    /\ nPeer' = nPeer + 1
    /\ wire' = [wire EXCEPT ![s] = Append(@, Fragment(text))]
    /\ eof' = [eof EXCEPT ![s] = TRUE]
    /\ UNCHANGED prodVars
    /\ UNCHANGED qVars
    /\ UNCHANGED rpcAgain
    /\ UNCHANGED startVars
    /\ UNCHANGED drawVars
    /\ UNCHANGED <<variant, now, connVars, uiVars, logs, backlog, nSock,
                   closeCount, readVars, logSrc, lastLineAt, demoted>>

PeerClose(s) ==
    /\ Writable(s)
    /\ nPeer < MaxPeerSteps
    /\ nPeer' = nPeer + 1
    /\ eof' = [eof EXCEPT ![s] = TRUE]
    /\ UNCHANGED prodVars
    /\ UNCHANGED qVars
    /\ UNCHANGED rpcAgain
    /\ UNCHANGED startVars
    /\ UNCHANGED drawVars
    /\ UNCHANGED <<variant, now, connVars, uiVars, logs, backlog, nSock,
                   wire, closeCount, readVars, logSrc, lastLineAt, demoted>>

(***************************************************************************)
(* acceptConnections: ln.Accept and the critical section that installs     *)
(* the connection, then go handleClient.                                   *)
(***************************************************************************)
\* conn.Close(): counted; what the peer wrote and was not read is gone
Close(cc, s) == [cc EXCEPT ![s] = @ + 1]

CloseOldSkip(cc, old) == cc

CloseOld(cc, old) == IF old # Nil THEN Close(cc, old) ELSE cc

\* part_000 has the assignment clientAlive = true commented out
AcceptAlive(v, old) == IF v = "part_000" THEN old ELSE TRUE

\* a socket closed here: what the peer wrote and was not read is dropped,
\* and its stream has ended
Discard(w, cc) == [s \in Sock |-> IF cc[s] > 0 THEN <<>> ELSE w[s]]
Ended(e, cc) == [s \in Sock |-> e[s] \/ cc[s] > 0]

Accept ==
    /\ ln = "bound"
    /\ apc = "accept"
    /\ backlog # <<>>
    /\ LET s == Head(backlog) IN
        /\ backlog' = Tail(backlog)
        /\ closeCount' = CloseOld(closeCount, conn)
        /\ wire' = Discard(wire, closeCount')
        /\ eof' = Ended(eof, closeCount')
        /\ conn' = s
        /\ alive' = AcceptAlive(variant, alive)
        /\ lastHeartbeat' = now
        /\ rpc' = [rpc EXCEPT ![s] = "scan"]
        /\ demoted' = FALSE
    /\ UNCHANGED prodVars
    /\ UNCHANGED qVars
    /\ UNCHANGED rpcAgain
    /\ UNCHANGED startVars
    /\ UNCHANGED drawVars
    /\ UNCHANGED <<variant, now, uiVars, logs, nSock, nPeer, buf, msg,
                   rcvd, logSrc, lastLineAt>>

\* the body of the accept loop run once more with the connection that is
\* installed: the critical section, then go handleClient on the same socket
AcceptAgain ==
    /\ conn # Nil
    /\ rpcAgain = NoAgain
    /\ closeCount' = CloseOld(closeCount, conn)
    /\ wire' = Discard(wire, closeCount')
    /\ eof' = Ended(eof, closeCount')
    /\ conn' = conn
    /\ alive' = AcceptAlive(variant, alive)
    /\ lastHeartbeat' = now
    /\ rpcAgain' = [on |-> conn, pc |-> "scan"]
    /\ UNCHANGED startVars
    /\ UNCHANGED drawVars
    /\ demoted' = FALSE
    /\ UNCHANGED prodVars
    /\ UNCHANGED qVars
    /\ UNCHANGED <<variant, now, uiVars, logs, backlog, nSock, nPeer, buf,
                   rpc, msg, rcvd, logSrc, lastLineAt>>

\* that second handleClient: its socket was closed here before it started,
\* so its first Scan returns false and the deferred function runs
ReaderAgainExit ==
    /\ rpcAgain.pc = "scan"
    /\ closeCount[rpcAgain.on] > 0
    /\ closeCount' = Close(closeCount, rpcAgain.on)
    /\ alive' = FALSE
    /\ rpcAgain' = [rpcAgain EXCEPT !.pc = "done"]
    /\ UNCHANGED startVars
    /\ UNCHANGED drawVars
    /\ UNCHANGED prodVars
    /\ UNCHANGED qVars
    /\ UNCHANGED <<variant, now, conn, lastHeartbeat, uiVars, logs, netVars,
                   readVars, logSrc, lastLineAt, demoted>>

(***************************************************************************)
(* monitorConnection: one tick of the 500ms ticker.                        *)
(***************************************************************************)
StaleLate(t, last) == t - last > heartbeatTimer + 1

Stale(t, last) == t - last > heartbeatTimer

MonitorAliveKeep(c, a, t, last) == a

MonitorAlive(c, a, t, last) == IF c # Nil /\ Stale(t, last) THEN FALSE ELSE a

MonitorTick ==
    /\ mainPc = "running"
    /\ alive' = MonitorAlive(conn, alive, now, lastHeartbeat)
    /\ uiConnected' = (conn # Nil /\ alive')
    /\ showEmoji' = ~showEmoji
    /\ demoted' = (demoted \/ (alive /\ ~alive'))
    /\ UNCHANGED prodVars
    /\ UNCHANGED qVars
    /\ UNCHANGED rpcAgain
    /\ UNCHANGED startVars
    /\ UNCHANGED drawVars
    /\ UNCHANGED <<variant, now, conn, lastHeartbeat, logs, netVars,
                   closeCount, readVars, logSrc, lastLineAt>>

(***************************************************************************)
(* monitorConnection step by step.  QueueUpdateDraw hands the function to  *)
(* the application's goroutine and returns; the function has its own copy  *)
(* of isConnected and shares the variable showEmoji with the monitor,      *)
(* which negates it next, with no synchronisation between the two.         *)
(***************************************************************************)
MonitorFrame ==
    /\ UNCHANGED prodVars
    /\ UNCHANGED qVars
    /\ UNCHANGED rpcAgain
    /\ UNCHANGED startVars
    /\ UNCHANGED <<variant, now, conn, lastHeartbeat, logs, netVars,
                   closeCount, readVars, logSrc, lastLineAt>>

\* the ticker fires: the critical section, then QueueUpdateDraw
MonitorQueue ==
    /\ mainPc = "running"
    /\ mpc = "tick"
    /\ Len(pending) < MaxPending
    /\ alive' = MonitorAlive(conn, alive, now, lastHeartbeat)
    /\ pending' = Append(pending, conn # Nil /\ alive')
    /\ demoted' = (demoted \/ (alive /\ ~alive'))
    /\ mpc' = "toggle"
    /\ UNCHANGED <<uiVars, drawn>>
    /\ MonitorFrame

\* showEmoji = !showEmoji
MonitorToggle ==
    /\ mpc = "toggle"
    /\ showEmoji' = ~showEmoji
    /\ mpc' = "tick"
    /\ UNCHANGED <<alive, uiConnected, demoted, pending, drawn>>
    /\ MonitorFrame

\* the application's goroutine runs the oldest queued function: it sets
\* the status line from its isConnected and from showEmoji as it is now
StatusDraw ==
    /\ pending # <<>>
    /\ drawn' = [connected |-> Head(pending), emoji |-> showEmoji]
    /\ uiConnected' = Head(pending)
    /\ pending' = Tail(pending)
    /\ UNCHANGED <<alive, showEmoji, demoted, mpc>>
    /\ MonitorFrame

(***************************************************************************)
(* handleClient(s): the bufio.Scanner loop and the deferred exit.          *)
(***************************************************************************)
\* what Scan can look at: its buffer and, when that holds no token, what a
\* read of the socket adds to it (nothing once the socket is closed here)
Readable(s) == IF closeCount[s] = 0 THEN wire[s] ELSE <<>>

ScanData(s) == IF buf[s] # <<>> THEN buf[s] ELSE Readable(s)

\* a read that fails on a socket closed here and never sees the peer's end
AtEOFLocal(s) == closeCount[s] > 0

\* the read failed (socket closed here) or hit the end of the stream
AtEOF(s) == closeCount[s] > 0 \/ eof[s]

\* ScanLines: a complete line is a token; at the end of the stream the
\* data left without a newline is a token too
CanScan(s) == ScanData(s) # <<>> /\ (Head(ScanData(s)).nl \/ AtEOF(s))

ScanTokenRaw(item) == item.text

ScanToken(item) == dropCR(item.text)

ReaderScan(s) ==
    /\ rpc[s] = "scan"
    /\ CanScan(s)
    /\ msg' = [msg EXCEPT ![s] = ScanToken(Head(ScanData(s)))]
    /\ buf' = [buf EXCEPT ![s] = Tail(ScanData(s))]
    /\ wire' = IF buf[s] # <<>> THEN wire ELSE [wire EXCEPT ![s] = <<>>]
    /\ rpc' = [rpc EXCEPT ![s] = "msg"]
    /\ rcvd' = [rcvd EXCEPT ![s] = Append(@, Head(ScanData(s)))]
    /\ UNCHANGED prodVars
    /\ UNCHANGED qVars
    /\ UNCHANGED rpcAgain
    /\ UNCHANGED startVars
    /\ UNCHANGED drawVars
    /\ UNCHANGED <<variant, now, connVars, uiVars, logs, backlog, nSock, eof,
                   nPeer, closeCount, logSrc, lastLineAt, demoted>>

IsHeartbeat(m) == m = heartbeat

\* the heartbeat branch
TouchAliveAny(m, a) == TRUE

TouchAlive(m, a) == IF IsHeartbeat(m) THEN TRUE ELSE a
TouchStamp(m, t, last) == IF IsHeartbeat(m) THEN t ELSE last

\* a log manager that keeps the two newest entries only
AddLogEvict(l, m) ==
    IF IsHeartbeat(m) THEN l
    ELSE IF Len(l) >= 2 THEN Append(Tail(l), colorizeLog(m))
    ELSE Append(l, colorizeLog(m))

\* a read loop that appends every line, the heartbeat too
AddLogAlways(l, m) == Append(l, colorizeLog(m))

\* LogManager.AddLog after colorizeLog
AddLog(l, m) == IF IsHeartbeat(m) THEN l ELSE Append(l, colorizeLog(m))

ReaderProcess(s) ==
    /\ rpc[s] = "msg"
    /\ alive' = TouchAlive(msg[s], alive)
    /\ lastHeartbeat' = TouchStamp(msg[s], now, lastHeartbeat)
    /\ logs' = AddLog(logs, msg[s])
    /\ logSrc' = IF IsHeartbeat(msg[s]) THEN logSrc
                 ELSE Append(logSrc, [src |-> s,
                                      frag |-> ~rcvd[s][Len(rcvd[s])].nl,
                                      raw |-> msg[s]])
    /\ lastLineAt' = now
    /\ rpc' = [rpc EXCEPT ![s] = "scan"]
    /\ msg' = [msg EXCEPT ![s] = Empty]
    /\ UNCHANGED prodVars
    /\ UNCHANGED qVars
    /\ UNCHANGED rpcAgain
    /\ UNCHANGED startVars
    /\ UNCHANGED drawVars
    /\ UNCHANGED <<variant, now, conn, uiVars, netVars, closeCount, buf, rcvd,
                   demoted>>

\* scanner.Scan() returned false: the deferred function runs
ExitConn(c, s) == c

ReaderExit(s) ==
    /\ rpc[s] = "scan"
    /\ ScanData(s) = <<>>
    /\ AtEOF(s)
    /\ closeCount' = Close(closeCount, s)
    /\ wire' = Discard(wire, closeCount')
    /\ eof' = Ended(eof, closeCount')
    /\ alive' = FALSE
    /\ conn' = ExitConn(conn, s)
    /\ rpc' = [rpc EXCEPT ![s] = "done"]
    /\ UNCHANGED prodVars
    /\ UNCHANGED qVars
    /\ UNCHANGED rpcAgain
    /\ UNCHANGED startVars
    /\ UNCHANGED drawVars
    /\ UNCHANGED <<variant, now, lastHeartbeat, uiVars, logs, backlog, nSock,
                   nPeer, buf, msg, rcvd, logSrc, lastLineAt, demoted>>

(***************************************************************************)
(* The operator of the collector asks for a view of the logs.  Each query  *)
(* holds the log manager's lock from its first line to its return.         *)
(***************************************************************************)
QueryFrame ==
    /\ UNCHANGED prodVars
    /\ UNCHANGED rpcAgain
    /\ UNCHANGED startVars
    /\ UNCHANGED drawVars
    /\ UNCHANGED <<variant, now, connVars, uiVars, logs, netVars, closeCount,
                   readVars, logSrc, lastLineAt, demoted>>

\* Ui3: a filter key, or the redraw queued by handleClient (filter ALL)
QueryFilter(f) ==
    /\ variant = "Ui3"
    /\ view' = GetFilteredLogs(logs, f)
    /\ viewOf' = [kind |-> "filter", filter |-> f, query |-> Empty,
                  at |-> logs]
    /\ QueryFrame

\* Ui3: the search bar changed
QuerySearch(q) ==
    /\ variant = "Ui3"
    /\ view' = GetSearchFilteredLogs(logs, q)
    /\ viewOf' = [kind |-> "search", filter |-> Empty, query |-> q,
                  at |-> logs]
    /\ QueryFrame

\* Ui6: one of the three calls of updateLogSections
QueryBoth(q, f) ==
    /\ variant = "Ui6"
    /\ view' = LogManager_GetSearchFilteredLogs(logs, q, f)
    /\ viewOf' = [kind |-> "both", filter |-> f, query |-> q, at |-> logs]
    /\ QueryFrame

(***************************************************************************)
(* The producer (Ui4/Client).  A write on a socket whose connection is     *)
(* gone (broken, or closed by the collector) fails or is accepted by the   *)
(* kernel and lost; a write on a sound connection reaches the wire.        *)
(***************************************************************************)
Broken(s) == eof[s] \/ closeCount[s] > 0

\* the outcomes of conn.Write of one line on s: ok is err == nil
WriteOutcomes(s) == IF Broken(s) THEN {"fail", "lost"} ELSE {"sent"}

WireAfter(w, s, out, text) ==
    IF out = "sent" THEN [w EXCEPT ![s] = Append(@, Line(text))] ELSE w

\* the producer closes its end
HangUp(e, s) == IF s = Nil THEN e ELSE [e EXCEPT ![s] = TRUE]

\* if conn != nil { conn.Close() }: counted
CloseIfSet(cc, s) == IF s = Nil THEN cc ELSE Close(cc, s)

\* checkConnection writes "\n": an empty line
ProbeLine == Empty

\* the line the sender writes for a heartbeat
BeatLine == heartbeat

\* the connection breaks under the producer
NetBreak ==
    /\ pConn # Nil
    /\ ~eof[pConn]
    /\ eof' = [eof EXCEPT ![pConn] = TRUE]
    /\ UNCHANGED <<backlog, nSock, nPeer, wire>>
    /\ UNCHANGED prodVars
    /\ UNCHANGED collVars

\* connect() that dials and leaves isConnected as it was
ConnectNoFlag(after) ==
    /\ \/ /\ nSock < MaxSock
          /\ nSock' = nSock + 1
          /\ backlog' = Append(backlog, nSock + 1)
          /\ pConn' = nSock + 1
       \/ /\ pConn' = Nil
          /\ UNCHANGED <<nSock, backlog>>
    /\ eof' = HangUp(eof, pConn)
    /\ pCloseCount' = CloseIfSet(pCloseCount, pConn)
    /\ hbPc' = after
    /\ UNCHANGED <<isConnected, nPeer, wire, sndPc, pShowEmoji, pStatus,
                   nBeats>>
    /\ UNCHANGED collVars
    /\ UNCHANGED keyVars
    /\ UNCHANGED lockVars

\* connect() that dials and installs without closing what is there
ConnectNoClose(after) ==
    /\ \/ /\ nSock < MaxSock
          /\ nSock' = nSock + 1
          /\ backlog' = Append(backlog, nSock + 1)
          /\ pConn' = nSock + 1
          /\ isConnected' = TRUE
       \/ /\ pConn' = Nil
          /\ isConnected' = FALSE
          /\ UNCHANGED <<nSock, backlog>>
    /\ hbPc' = after
    /\ UNCHANGED <<eof, pCloseCount>>
    /\ UNCHANGED <<nPeer, wire, sndPc, pShowEmoji, pStatus, nBeats>>
    /\ UNCHANGED collVars
    /\ UNCHANGED keyVars
    /\ UNCHANGED lockVars

\* connect(): close what is there, dial, install
Connect(after) ==
    /\ \/ /\ nSock < MaxSock
          /\ nSock' = nSock + 1
          /\ backlog' = Append(backlog, nSock + 1)
          /\ pConn' = nSock + 1
          /\ isConnected' = TRUE
       \/ /\ pConn' = Nil
          /\ isConnected' = FALSE
          /\ UNCHANGED <<nSock, backlog>>
    /\ eof' = HangUp(eof, pConn)
    /\ pCloseCount' = CloseIfSet(pCloseCount, pConn)
    /\ hbPc' = after
    /\ UNCHANGED <<nPeer, wire, sndPc, pShowEmoji, pStatus, nBeats>>
    /\ UNCHANGED collVars
    /\ UNCHANGED keyVars
    /\ UNCHANGED lockVars

\* main: the initial connect(), then the goroutines start
ProducerStart ==
    /\ hbPc = "start"
    /\ Connect("idle")

\* heartbeatTicker fires: checkConnection()
HeartbeatTick ==
    /\ ~stopped
    /\ hbPc = "idle"
    /\ nBeats < MaxBeats
    /\ nBeats' = nBeats + 1
    /\ IF pConn = Nil
       THEN /\ isConnected' = FALSE
            /\ hbPc' = "connect"
            /\ UNCHANGED <<pConn, wire, eof, pCloseCount>>
       ELSE \E out \in WriteOutcomes(pConn) :
            /\ wire' = WireAfter(wire, pConn, out, ProbeLine)
            /\ IF out = "fail"
               THEN /\ eof' = HangUp(eof, pConn)
                    /\ pCloseCount' = Close(pCloseCount, pConn)
                    /\ pConn' = Nil
                    /\ isConnected' = FALSE
                    /\ hbPc' = "connect"
               ELSE /\ isConnected' = TRUE
                    /\ hbPc' = "send"
                    /\ UNCHANGED <<pConn, eof, pCloseCount>>
    /\ UNCHANGED <<backlog, nSock, nPeer, sndPc, pShowEmoji, pStatus>>
    /\ UNCHANGED collVars
    /\ UNCHANGED keyVars
    /\ UNCHANGED lockVars

\* checkConnection() returned false: connect()
Reconnect ==
    /\ ~stopped
    /\ hbPc = "connect"
    /\ Connect("send")

\* connect() as an operation of its own: called whatever the state of the
\* connection is, the heartbeat goroutine staying where it is
ConnectCall ==
    /\ ~stopped
    /\ hbPc # "start"
    /\ Connect(hbPc)

\* heartbeatChan <- struct{}{} meets the sender's select
HeartbeatHandoff ==
    /\ ~stopped
    /\ hbPc = "send"
    /\ sndPc = "select"
    /\ hbPc' = "idle"
    /\ sndPc' = "hb"
    /\ UNCHANGED <<pConn, isConnected, pShowEmoji, pStatus, nBeats,
                   pCloseCount>>
    /\ UNCHANGED netVars
    /\ UNCHANGED collVars
    /\ UNCHANGED keyVars
    /\ UNCHANGED lockVars

\* the sender's case <-heartbeatChan
SenderHeartbeat ==
    /\ ~stopped
    /\ sndPc = "hb"
    /\ sndPc' = "select"
    /\ IF pConn # Nil /\ isConnected
       THEN \E out \in WriteOutcomes(pConn) :
            /\ wire' = WireAfter(wire, pConn, out, BeatLine)
            /\ IF out = "fail"
               THEN /\ eof' = HangUp(eof, pConn)
                    /\ pCloseCount' = Close(pCloseCount, pConn)
                    /\ pConn' = Nil
                    /\ isConnected' = FALSE
               ELSE UNCHANGED <<pConn, isConnected, eof, pCloseCount>>
       ELSE UNCHANGED <<pConn, isConnected, wire, eof, pCloseCount>>
    /\ UNCHANGED <<backlog, nSock, nPeer, hbPc, pShowEmoji, pStatus, nBeats>>
    /\ UNCHANGED collVars
    /\ UNCHANGED keyVars
    /\ UNCHANGED lockVars

\* blinkTicker fires
BlinkTick ==
    /\ ~stopped
    /\ hbPc = "idle"
    /\ pStatus' = isConnected
    /\ pShowEmoji' = ~pShowEmoji
    /\ UNCHANGED <<pConn, isConnected, hbPc, sndPc, nBeats, pCloseCount>>
    /\ UNCHANGED netVars
    /\ UNCHANGED collVars
    /\ UNCHANGED keyVars
    /\ UNCHANGED lockVars

(***************************************************************************)
(* The producer's own log manager.  logs is a Go slice: a backing array    *)
(* and a length.  append writes in place while the array has room and      *)
(* moves to a new array of twice the size when it has none.  GetLogs       *)
(* returns a part of the backing array itself when there are more entries  *)
(* than the limit, and a copy otherwise.                                   *)
(***************************************************************************)
Items(sl) == SubSeq(sl.arr, 1, sl.len)

\* an append that keeps two entries and overwrites in place
SliceAppendInPlace(sl, x) ==
    IF sl.len >= 2
    THEN [arr |-> [i \in 1..Len(sl.arr) |->
                      IF i < sl.len THEN sl.arr[i + 1]
                      ELSE IF i = sl.len THEN x ELSE sl.arr[i]],
          len |-> sl.len]
    ELSE [arr |-> Append(Items(sl), x), len |-> sl.len + 1]

\* lm.logs = append(lm.logs, log)
SliceAppend(sl, x) ==
    IF sl.len < Len(sl.arr)
    THEN [arr |-> [sl.arr EXCEPT ![sl.len + 1] = x], len |-> sl.len + 1]
    ELSE LET newcap == IF Len(sl.arr) = 0 THEN 1 ELSE 2 * Len(sl.arr)
         IN  [arr |-> [i \in 1..newcap |->
                          IF i <= sl.len THEN sl.arr[i]
                          ELSE IF i = sl.len + 1 THEN x ELSE Empty],
              len |-> sl.len + 1]

\* logManager.GetLogs
GetLogs(sl, limit) ==
    IF sl.len > limit
    THEN [shared |-> TRUE, off |-> sl.len - limit, len |-> limit,
          data |-> <<>>]
    ELSE [shared |-> FALSE, off |-> 0, len |-> sl.len, data |-> Items(sl)]

\* the entries a returned slice shows
ViewItems(pv, sl) ==
    IF pv.shared THEN SubSeq(sl.arr, pv.off + 1, pv.off + pv.len)
    ELSE pv.data

\* a returned slice after an append to logs: when logs moved to a new
\* array the slice keeps the old one, which nothing writes any more
ViewAfter(pv, sl, sl2) ==
    IF pv.shared /\ Len(sl2.arr) # Len(sl.arr)
    THEN [shared |-> FALSE, off |-> 0, len |-> pv.len,
          data |-> ViewItems(pv, sl)]
    ELSE pv

(***************************************************************************)
(* The producer's key handler (the input capture), which runs on the       *)
(* application's event loop, and the sender's case for a log message.      *)
(***************************************************************************)
BrokenMsg ==
    <<"C", "o", "n", "n", "e", "c", "t", "i", "o", "n", " ", "i", "s",
      " ", "b", "r", "o", "k", "e", "n", ".", " ", "U", "n", "a", "b",
      "l", "e", " ", "t", "o", " ", "s", "e", "n", "d", " ", "l", "o",
      "g", ".">>
FailedMsg ==
    <<"F", "a", "i", "l", "e", "d", " ", "t", "o", " ", "s", "e", "n",
      "d", " ", "l", "o", "g", " ", "t", "o", " ", "s", "e", "r", "v",
      "e", "r", ".">>
InfoSent ==
    <<" ", "I", "N", "F", "O", ":", " ", "I", "n", "f", "o", " ", "l",
      "o", "g", " ", "s", "e", "n", "t">>
WarningSent ==
    <<" ", "W", "A", "R", "N", "I", "N", "G", ":", " ", "W", "a", "r",
      "n", "i", "n", "g", " ", "l", "o", "g", " ", "s", "e", "n", "t">>
ErrorSent ==
    <<" ", "E", "R", "R", "O", "R", ":", " ", "E", "r", "r", "o", "r",
      " ", "l", "o", "g", " ", "s", "e", "n", "t">>

\* time.Now().Format("2006-01-02 15:04:05"): the clock starts at
\* 2024-01-01 10:00:00
DateText ==
    <<"2", "0", "2", "4", "-", "0", "1", "-", "0", "1", " ", "1", "0",
      ":", "0", "0", ":", "0">>
Digits == <<"0", "1", "2", "3", "4", "5", "6", "7", "8", "9">>
Timestamp(t) == DateText \o <<Digits[t + 1]>>

LogKeys == {"I", "i", "W", "w", "E", "e"}
StopKeys == {"Q", "q"}

LogText(k, t) ==
    CASE k \in {"I", "i"} -> Timestamp(t) \o InfoSent
      [] k \in {"W", "w"} -> Timestamp(t) \o WarningSent
      [] k \in {"E", "e"} -> Timestamp(t) \o ErrorSent

\* the keys pressed in the model, and the limits GetLogs is called with
Limits == (1..MaxLimit) \cup {logLimit}
Keys == {"I", "Q"}

KeyFrame ==
    /\ UNCHANGED lockVars
    /\ UNCHANGED <<pConn, isConnected, hbPc, pShowEmoji, pStatus, nBeats,
                   pCloseCount>>
    /\ UNCHANGED <<backlog, nSock, nPeer, wire>>
    /\ UNCHANGED collVars

\* a handler that takes the producer for connected whatever the flag says
RejectsNever(connected) == FALSE

\* if !isConnected
Rejects(connected) == ~connected

\* a key event arrives: the handler up to its first AddLog, if any
KeyPress(k) ==
    /\ ~stopped
    /\ hbPc # "start"
    /\ keyPc = "idle"
    /\ nKeys < MaxKeys
    /\ nKeys' = nKeys + 1
    /\ IF Rejects(isConnected)
       THEN /\ pLogs' = SliceAppend(pLogs, BrokenMsg)
            /\ pView' = ViewAfter(pView, pLogs, pLogs')
            /\ keyPc' = "draw"
            /\ UNCHANGED <<keyMsg, stopped, eof>>
       ELSE IF k \in LogKeys
       THEN /\ pLogs' = SliceAppend(pLogs, LogText(k, now))
            /\ pView' = ViewAfter(pView, pLogs, pLogs')
            /\ keyMsg' = LogText(k, now)
            /\ keyPc' = "draw"
            /\ UNCHANGED <<stopped, eof>>
       ELSE IF k \in StopKeys
       THEN /\ stopped' = TRUE
            /\ eof' = HangUp(eof, pConn)
            /\ UNCHANGED <<pLogs, pView, keyMsg, keyPc>>
       ELSE UNCHANGED <<pLogs, pView, keyMsg, keyPc, stopped, eof>>
    /\ UNCHANGED <<pViewOf, sndPc, sndMsg>>
    /\ KeyFrame

\* updateLogsView: GetLogs(limit) and the redraw
UpdateLogsView(limit) ==
    /\ keyPc = "draw"
    /\ pView' = GetLogs(pLogs, limit)
    /\ pViewOf' = [limit |-> limit, at |-> Items(pLogs)]
    /\ keyPc' = IF keyMsg # Empty THEN "select" ELSE "idle"
    /\ UNCHANGED <<pLogs, keyMsg, sndPc, sndMsg, nKeys, stopped, eof>>
    /\ KeyFrame

\* a channel that takes the message whatever the sender is doing
SenderWaitsAlways == TRUE

\* select { case logChan <- logMsg: default: AddLog(...) }: the send
\* goes through when the sender waits in its select
SenderWaits == sndPc = "select"

KeySend ==
    /\ keyPc = "select"
    /\ IF SenderWaits
       THEN /\ sndPc' = "log"
            /\ sndMsg' = keyMsg
            /\ keyPc' = "idle"
            /\ UNCHANGED <<pLogs, pView>>
       ELSE /\ pLogs' = SliceAppend(pLogs, FailedMsg)
            /\ pView' = ViewAfter(pView, pLogs, pLogs')
            /\ keyPc' = "draw"
            /\ UNCHANGED <<sndPc, sndMsg>>
    /\ keyMsg' = Empty
    /\ UNCHANGED <<pViewOf, nKeys, stopped, eof>>
    /\ KeyFrame

\* the sender's case logMsg := <-logChan
SenderLog ==
    /\ ~stopped
    /\ sndPc = "log"
    /\ sndPc' = "select"
    /\ sndMsg' = Empty
    /\ IF pConn # Nil /\ isConnected
       THEN \E out \in WriteOutcomes(pConn) :
            /\ wire' = WireAfter(wire, pConn, out, sndMsg)
            /\ IF out = "fail"
               THEN /\ eof' = HangUp(eof, pConn)
                    /\ pCloseCount' = Close(pCloseCount, pConn)
                    /\ pConn' = Nil
                    /\ isConnected' = FALSE
               ELSE UNCHANGED <<pConn, isConnected, eof, pCloseCount>>
       ELSE UNCHANGED <<pConn, isConnected, wire, eof, pCloseCount>>
    /\ UNCHANGED <<backlog, nSock, nPeer, hbPc, pShowEmoji, pStatus, nBeats>>
    /\ UNCHANGED <<pLogs, pView, pViewOf, keyPc, keyMsg, nKeys, stopped>>
    /\ UNCHANGED lockVars
    /\ UNCHANGED collVars

(***************************************************************************)
(* The collector starts.  Ui6 starts its goroutines and the application    *)
(* and listens in acceptConnections; the other sources listen in main      *)
(* before the accept goroutine and the application start.                  *)
(***************************************************************************)
ListensInMain(v) == v # "Ui6"

\* net.Listen returns a listener or an error
ListenOutcomes == {"bound", "failed"}

StartFrame ==
    /\ UNCHANGED drawVars
    /\ UNCHANGED prodVars
    /\ UNCHANGED qVars
    /\ UNCHANGED rpcAgain
    /\ UNCHANGED <<variant, now, connVars, uiVars, logs, netVars, closeCount,
                   readVars, logSrc, lastLineAt, demoted>>

\* main of Ui3 and part_000: net.Listen, then return or go on to app.Run
MainListen ==
    /\ ListensInMain(variant)
    /\ mainPc = "start"
    /\ \E r \in ListenOutcomes :
          /\ ln' = r
          /\ mainPc' = IF r = "bound" THEN "running" ELSE "exited"
          /\ apc' = IF r = "bound" THEN "accept" ELSE "none"
    /\ StartFrame

\* main of Ui6: go monitorConnection, go acceptConnections, app.Run
MainRun ==
    /\ ~ListensInMain(variant)
    /\ mainPc = "start"
    /\ mainPc' = "running"
    /\ UNCHANGED <<ln, apc>>
    /\ StartFrame

\* acceptConnections of Ui6: net.Listen, then return or go on to the loop
AcceptListen ==
    /\ ~ListensInMain(variant)
    /\ mainPc = "running"
    /\ ln = "none"
    /\ \E r \in ListenOutcomes :
          /\ ln' = r
          /\ apc' = IF r = "bound" THEN "accept" ELSE "returned"
    /\ UNCHANGED mainPc
    /\ StartFrame

InitStartup ==
    /\ variant \in Variants
    /\ ln = "none"
    /\ mainPc = "start"
    /\ apc = "none"
    /\ now = 0
    /\ conn = Nil
    /\ alive = FALSE
    /\ lastHeartbeat = ZeroTime
    /\ showEmoji = TRUE
    /\ uiConnected = FALSE
    /\ logs = <<>>
    /\ backlog = <<>>
    /\ nSock = 0
    /\ closeCount = [s \in Sock |-> 0]
    /\ eof = [s \in Sock |-> FALSE]
    /\ nPeer = 0
    /\ wire = [s \in Sock |-> <<>>]
    /\ buf = [s \in Sock |-> <<>>]
    /\ rpc = [s \in Sock |-> "none"]
    /\ msg = [s \in Sock |-> Empty]
    /\ rcvd = [s \in Sock |-> <<>>]
    /\ logSrc = <<>>
    /\ lastLineAt = ZeroTime
    /\ demoted = FALSE
    /\ view = <<>>
    /\ viewOf = NoQuery
    /\ rpcAgain = NoAgain
    /\ DrawInit
    /\ LocksInit
    /\ ProducerInit

NextStartup ==
    \/ MainListen
    \/ MainRun
    \/ AcceptListen
    \/ PeerConnect
    \/ \E s \in Sock : PeerSend(s, heartbeat)
    \/ Accept
    \/ MonitorTick
    \/ \E s \in Sock : ReaderScan(s)
    \/ \E s \in Sock : ReaderProcess(s)

SpecStartup == InitStartup /\ [][NextStartup]_vars

(***************************************************************************)
(* Shutdown: the operator's quit key stops the application, app.Run        *)
(* returns and main returns, running what it deferred; the process ends    *)
(* when main has returned, and until then the goroutines go on.            *)
(***************************************************************************)
\* the input capture's case 'q', 'Q': app.Stop(), after which Run returns
QuitKey ==
    /\ mainPc = "running"
    /\ mainPc' = "stopped"
    /\ UNCHANGED <<ln, apc>>
    /\ StartFrame

\* main returns; where the listener is main's, its deferred ln.Close() runs
MainReturn ==
    /\ mainPc = "stopped"
    /\ mainPc' = "closing"
    /\ ln' = IF ListensInMain(variant) /\ ln = "bound" THEN "closed" ELSE ln
    /\ UNCHANGED apc
    /\ StartFrame

\* the process ends once main has returned
ProcessExit ==
    /\ mainPc = "closing"
    /\ mainPc' = "exited"
    /\ UNCHANGED <<ln, apc>>
    /\ StartFrame

\* ln.Accept() returns an error: the listener was closed
AcceptFail ==
    /\ mainPc # "exited"
    /\ ln = "closed"
    /\ apc = "accept"
    /\ apc' = "failed"
    /\ UNCHANGED <<ln, mainPc>>
    /\ StartFrame

\* the error branch of the accept loop: print, then continue
AfterAcceptError == "accept"

AcceptError ==
    /\ mainPc # "exited"
    /\ apc = "failed"
    /\ apc' = AfterAcceptError
    /\ UNCHANGED <<ln, mainPc>>
    /\ StartFrame

NextShutdown ==
    \/ NextStartup
    \/ QuitKey
    \/ MainReturn
    \/ ProcessExit
    \/ AcceptFail
    \/ AcceptError

SpecShutdown == InitStartup /\ [][NextShutdown]_vars

(***************************************************************************)
(* The status line: the collector with its monitor taken step by step and  *)
(* the queued status updates drawn by the application's goroutine.         *)
(***************************************************************************)
NextStatus ==
    \/ PeerConnect
    \/ \E s \in Sock : PeerSend(s, heartbeat)
    \/ \E s \in Sock : PeerClose(s)
    \/ Accept
    \/ MonitorQueue
    \/ MonitorToggle
    \/ StatusDraw
    \/ \E s \in Sock : ReaderScan(s)
    \/ \E s \in Sock : ReaderProcess(s)
    \/ \E s \in Sock : ReaderExit(s)

SpecStatus == Init /\ [][NextStatus]_vars

(***************************************************************************)
(* A producer that sends one line, is cut off, and comes back: the peer of *)
(* the collector follows a script, nPeer being its position in it.         *)
(***************************************************************************)
BootLine ==
    Timestamp(0) \o <<" ", "I", "N", "F", "O", ":", " ", "b", "o", "o", "t">>

ScFrame ==
    /\ UNCHANGED prodVars
    /\ UNCHANGED qVars
    /\ UNCHANGED rpcAgain
    /\ UNCHANGED startVars
    /\ UNCHANGED drawVars
    /\ UNCHANGED <<variant, connVars, uiVars, logs, closeCount, readVars,
                   logSrc, lastLineAt, demoted>>

ScDial(k) ==
    /\ nPeer = k
    /\ nPeer' = k + 1
    /\ nSock' = nSock + 1
    /\ backlog' = Append(backlog, nSock + 1)
    /\ UNCHANGED <<now, eof, wire>>
    /\ ScFrame

ScSend(s, text, k) ==
    /\ nPeer = k
    /\ Writable(s)
    /\ nPeer' = k + 1
    /\ wire' = [wire EXCEPT ![s] = Append(@, Line(text))]
    /\ UNCHANGED <<now, eof, backlog, nSock>>
    /\ ScFrame

\* the connection is cut: the collector sees the end of the stream, or
\* nothing at all
ScDrop(s, seen) ==
    /\ nPeer = 2
    /\ nPeer' = 3
    /\ eof' = [eof EXCEPT ![s] = seen]
    /\ UNCHANGED <<now, wire, backlog, nSock>>
    /\ ScFrame

\* the collector has handled all that has arrived
Quiescent ==
    /\ backlog = <<>>
    /\ \A s \in Sock :
          /\ rpc[s] # "msg"
          /\ rpc[s] = "scan" => ~CanScan(s) /\ ~(ScanData(s) = <<>> /\ AtEOF(s))

\* a second passes while the producer is away; the collector's goroutines
\* need far less than a second for what is there to do
ScTick ==
    /\ nPeer = 3
    /\ now < MaxTime
    /\ Quiescent
    /\ now' = now + 1
    /\ UNCHANGED <<nPeer, eof, wire, backlog, nSock>>
    /\ ScFrame

\* the producer is back after MaxTime seconds, more than heartbeatTimer
ScRedial ==
    /\ now = MaxTime
    /\ ScDial(3)

NextScenario ==
    \/ ScDial(0)
    \/ ScSend(1, BootLine, 1)
    \/ \E seen \in BOOLEAN : ScDrop(1, seen)
    \/ ScTick
    \/ ScRedial
    \/ ScSend(2, heartbeat, 4)
    \/ Accept
    \/ MonitorTick
    \/ \E s \in Sock : ReaderScan(s)
    \/ \E s \in Sock : ReaderProcess(s)
    \/ \E s \in Sock : ReaderExit(s)

SpecScenario == Init /\ [][NextScenario]_vars

(***************************************************************************)
(* The steps of the lock level.                                            *)
(***************************************************************************)
baseVars == <<collVars, netVars, pConn, isConnected, hbPc, sndPc, pShowEmoji,
              pStatus, nBeats, pCloseCount, keyVars>>

\* a mutex that never makes anyone wait
FreeAlways(l) == TRUE

\* mu.Lock() returns when nobody holds the mutex
Free(l) == mu[l] = "free"

Op(w) == Paths(w)[wpc[w].path][wpc[w].at]

Running(w) == side = SideOf(w) /\ wpc[w] # Idle

\* after the path's last operation the goroutine is at its loop's top
Advance(w) ==
    IF wpc[w].at = Len(Paths(w)[wpc[w].path]) THEN Idle
    ELSE [wpc[w] EXCEPT !.at = @ + 1]

\* the stream keeps its newest chunks
Window(q) ==
    IF Len(q) > MaxChunks THEN SubSeq(q, Len(q) - MaxChunks + 1, Len(q)) ELSE q

\* a ticker fires, a key or a line arrives, ln.Accept returns
Begin(w, p) ==
    /\ side = SideOf(w)
    /\ wpc[w] = Idle
    /\ p \in Starts(w)
    /\ wpc' = [wpc EXCEPT ![w] = [path |-> p, at |-> 1]]
    /\ UNCHANGED <<side, mu, stream>>
    /\ UNCHANGED baseVars

DoLock(w) ==
    /\ Running(w)
    /\ Op(w).op = "lock"
    /\ Free(Op(w).arg)
    /\ mu' = [mu EXCEPT ![Op(w).arg] = w]
    /\ wpc' = [wpc EXCEPT ![w] = Advance(w)]
    /\ UNCHANGED <<side, stream>>
    /\ UNCHANGED baseVars

DoUnlock(w) ==
    /\ Running(w)
    /\ Op(w).op = "unlock"
    /\ mu' = [mu EXCEPT ![Op(w).arg] = "free"]
    /\ wpc' = [wpc EXCEPT ![w] = Advance(w)]
    /\ UNCHANGED <<side, stream>>
    /\ UNCHANGED baseVars

\* conn.Write hands one part of the line to the socket
DoWrite(w) ==
    /\ Running(w)
    /\ Op(w).op = "write"
    /\ stream' = Window(Append(stream, [by |-> w, frame |-> wpc[w].path,
                                         part |-> Op(w).arg]))
    /\ wpc' = [wpc EXCEPT ![w] = Advance(w)]
    /\ UNCHANGED <<side, mu>>
    /\ UNCHANGED baseVars

DoWork(w) ==
    /\ Running(w)
    /\ Op(w).op = "work"
    /\ wpc' = [wpc EXCEPT ![w] = Advance(w)]
    /\ UNCHANGED <<side, mu, stream>>
    /\ UNCHANGED baseVars

\* the sender is in its select: the value sent is received
Receives(w, p) ==
    [wpc EXCEPT ![w] = Advance(w), !["sender"] = [path |-> p, at |-> 1]]

\* heartbeatChan <- struct{}{}: waits for the sender
DoSend(w) ==
    /\ Running(w)
    /\ Op(w).op = "send"
    /\ wpc["sender"] = Idle
    /\ \E p \in RecvPaths(Op(w).arg) : wpc' = Receives(w, p)
    /\ UNCHANGED <<side, mu, stream>>
    /\ UNCHANGED baseVars

\* select { case logChan <- logMsg: default: }
DoTrySend(w) ==
    /\ Running(w)
    /\ Op(w).op = "trysend"
    /\ IF wpc["sender"] = Idle
       THEN \E p \in RecvPaths(Op(w).arg) : wpc' = Receives(w, p)
       ELSE wpc' = [wpc EXCEPT ![w] = [path |-> "unsent", at |-> 1]]
    /\ UNCHANGED <<side, mu, stream>>
    /\ UNCHANGED baseVars

InitLocks ==
    /\ side \in Sides
    /\ mu = [l \in Locks |-> "free"]
    /\ wpc = [w \in Workers |-> Idle]
    /\ stream = <<>>
    /\ variant = "Ui6"
    /\ now = 0
    /\ conn = Nil
    /\ alive = FALSE
    /\ lastHeartbeat = ZeroTime
    /\ showEmoji = TRUE
    /\ uiConnected = FALSE
    /\ logs = <<>>
    /\ backlog = <<>>
    /\ nSock = 0
    /\ closeCount = [s \in Sock |-> 0]
    /\ eof = [s \in Sock |-> FALSE]
    /\ nPeer = 0
    /\ wire = [s \in Sock |-> <<>>]
    /\ buf = [s \in Sock |-> <<>>]
    /\ rpc = [s \in Sock |-> "none"]
    /\ msg = [s \in Sock |-> Empty]
    /\ rcvd = [s \in Sock |-> <<>>]
    /\ logSrc = <<>>
    /\ lastLineAt = ZeroTime
    /\ demoted = FALSE
    /\ view = <<>>
    /\ viewOf = NoQuery
    /\ rpcAgain = NoAgain
    /\ Serving
    /\ DrawInit
    /\ ProducerInit

NextLocks ==
    \/ \E w \in Workers, p \in {"tick", "redial", "blink", "rejected", "log",
                                "accept", "heartbeat", "exit", "update"} :
          Begin(w, p)
    \/ \E w \in Workers : DoLock(w)
    \/ \E w \in Workers : DoUnlock(w)
    \/ \E w \in Workers : DoWrite(w)
    \/ \E w \in Workers : DoWork(w)
    \/ \E w \in Workers : DoSend(w)
    \/ \E w \in Workers : DoTrySend(w)

SpecLocks == InitLocks /\ [][NextLocks]_vars

(***************************************************************************)
(* The collector with a peer that writes heartbeats and log lines.         *)
(***************************************************************************)
Next ==
    \/ Tick
    \/ PeerConnect
    \/ \E s \in Sock, t \in PeerLines : PeerSend(s, t)
    \/ \E s \in Sock : PeerClose(s)
    \/ Accept
    \/ MonitorTick
    \/ \E s \in Sock : ReaderScan(s)
    \/ \E s \in Sock : ReaderProcess(s)
    \/ \E s \in Sock : ReaderExit(s)

Spec == Init /\ [][Next]_vars

(***************************************************************************)
(* The frame reader: the collector with the clock stopped and a peer that  *)
(* writes any line, and may end its stream in the middle of one.           *)
(***************************************************************************)
NextFrames ==
    \/ PeerConnect
    \/ \E s \in Sock, t \in FrameLines : PeerSend(s, t)
    \/ \E s \in Sock, t \in PeerFragments : PeerSendPartial(s, t)
    \/ \E s \in Sock : PeerClose(s)
    \/ Accept
    \/ \E s \in Sock : ReaderScan(s)
    \/ \E s \in Sock : ReaderProcess(s)
    \/ \E s \in Sock : ReaderExit(s)

SpecFrames == Init /\ [][NextFrames]_vars

\* a read loop that has something to do does it in the end
SpecFramesFair ==
    /\ SpecFrames
    /\ \A s \in Sock :
          /\ WF_vars(ReaderScan(s))
          /\ WF_vars(ReaderProcess(s))
          /\ WF_vars(ReaderExit(s))

(***************************************************************************)
(* Every collector source, accepting connections.                          *)
(***************************************************************************)
InitVariants ==
    /\ variant \in Variants
    /\ now = 0
    /\ conn = Nil
    /\ alive = FALSE
    /\ lastHeartbeat = ZeroTime
    /\ showEmoji = TRUE
    /\ uiConnected = FALSE
    /\ logs = <<>>
    /\ backlog = <<>>
    /\ nSock = 0
    /\ closeCount = [s \in Sock |-> 0]
    /\ eof = [s \in Sock |-> FALSE]
    /\ nPeer = 0
    /\ wire = [s \in Sock |-> <<>>]
    /\ buf = [s \in Sock |-> <<>>]
    /\ rpc = [s \in Sock |-> "none"]
    /\ msg = [s \in Sock |-> Empty]
    /\ rcvd = [s \in Sock |-> <<>>]
    /\ logSrc = <<>>
    /\ lastLineAt = ZeroTime
    /\ demoted = FALSE
    /\ view = <<>>
    /\ viewOf = NoQuery
    /\ rpcAgain = NoAgain
    /\ Serving
    /\ DrawInit
    /\ LocksInit
    /\ ProducerInit

NextVariants ==
    \/ Tick
    \/ PeerConnect
    \/ \E s \in Sock : PeerSend(s, heartbeat)
    \/ \E s \in Sock : PeerClose(s)
    \/ Accept
    \/ MonitorTick
    \/ \E s \in Sock : ReaderScan(s)
    \/ \E s \in Sock : ReaderProcess(s)
    \/ \E s \in Sock : ReaderExit(s)

SpecVariants == InitVariants /\ [][NextVariants]_vars

(***************************************************************************)
(* The log store: the collectors of Ui3 and Ui6 with peers that write log  *)
(* lines, and an operator who queries the logs while they arrive.          *)
(***************************************************************************)
InitStore ==
    /\ InitVariants
    /\ variant \in {"Ui3", "Ui6"}

NextStore ==
    \/ PeerConnect
    \/ \E s \in Sock, t \in StoreLines : PeerSend(s, t)
    \/ Accept
    \/ \E s \in Sock : ReaderScan(s)
    \/ \E s \in Sock : ReaderProcess(s)
    \/ \E f \in Filters : QueryFilter(f)
    \/ \E q \in Queries : QuerySearch(q)
    \/ \E q \in Queries, f \in LogTypes : QueryBoth(q, f)

SpecStore == InitStore /\ [][NextStore]_vars

(***************************************************************************)
(* The producer, with no key pressed, connected to the collector.          *)
(***************************************************************************)
NextHeartbeat ==
    \/ ProducerStart
    \/ HeartbeatTick
    \/ Reconnect
    \/ HeartbeatHandoff
    \/ SenderHeartbeat
    \/ BlinkTick
    \/ NetBreak
    \/ Accept
    \/ MonitorTick
    \/ \E s \in Sock : ReaderScan(s)
    \/ \E s \in Sock : ReaderProcess(s)
    \/ \E s \in Sock : ReaderExit(s)

SpecHeartbeat == Init /\ [][NextHeartbeat]_vars

(***************************************************************************)
(* The producer: the key handler, the sender and the heartbeat goroutine,  *)
(* on a connection that may break.                                         *)
(***************************************************************************)
NextProducer ==
    \/ ProducerStart
    \/ HeartbeatTick
    \/ Reconnect
    \/ HeartbeatHandoff
    \/ SenderHeartbeat
    \/ NetBreak
    \/ \E k \in Keys : KeyPress(k)
    \/ UpdateLogsView(logLimit)
    \/ KeySend
    \/ SenderLog

SpecProducer == Init /\ [][NextProducer]_vars

\* the tickers fire and no goroutine that can run waits for ever
SpecProducerFair ==
    /\ SpecProducer
    /\ WF_vars(HeartbeatTick)
    /\ WF_vars(Reconnect)
    /\ WF_vars(HeartbeatHandoff)
    /\ WF_vars(SenderHeartbeat)
    /\ WF_vars(SenderLog)

(***************************************************************************)
(* Both log managers at work: the producer's key handler appends to its    *)
(* own logs and redraws from GetLogs, the sender writes the messages, the  *)
(* collector appends them and its operator queries them.                   *)
(***************************************************************************)
NextSnapshot ==
    \/ ProducerStart
    \/ \E k \in Keys : KeyPress(k)
    \/ \E limit \in Limits : UpdateLogsView(limit)
    \/ KeySend
    \/ SenderLog
    \/ Accept
    \/ \E s \in Sock : ReaderScan(s)
    \/ \E s \in Sock : ReaderProcess(s)
    \/ \E f \in Filters : QueryFilter(f)
    \/ \E q \in Queries : QuerySearch(q)
    \/ \E q \in Queries, f \in LogTypes : QueryBoth(q, f)

SpecSnapshot == InitStore /\ [][NextSnapshot]_vars

(***************************************************************************)
(* connect() called again and again: the producer of SpecHeartbeat with a  *)
(* caller that runs connect() at any time, a socket installed or not.      *)
(***************************************************************************)
NextConnect ==
    \/ ProducerStart
    \/ ConnectCall
    \/ HeartbeatTick
    \/ Reconnect
    \/ HeartbeatHandoff
    \/ SenderHeartbeat
    \/ NetBreak
    \/ Accept
    \/ \E s \in Sock : ReaderScan(s)
    \/ \E s \in Sock : ReaderProcess(s)
    \/ \E s \in Sock : ReaderExit(s)

SpecConnect == Init /\ [][NextConnect]_vars

(***************************************************************************)
(* The accept loop's body run twice with one socket: the collector of      *)
(* Spec, where the body may run once more with the installed connection.   *)
(***************************************************************************)
NextAcceptTwice ==
    \/ Tick
    \/ PeerConnect
    \/ \E s \in Sock : PeerSend(s, heartbeat)
    \/ \E s \in Sock : PeerClose(s)
    \/ Accept
    \/ AcceptAgain
    \/ MonitorTick
    \/ \E s \in Sock : ReaderScan(s)
    \/ \E s \in Sock : ReaderProcess(s)
    \/ \E s \in Sock : ReaderExit(s)
    \/ ReaderAgainExit

SpecAcceptTwice == Init /\ [][NextAcceptTwice]_vars

(***************************************************************************)
(* Steps of the collector, recognised by what they change.                 *)
(***************************************************************************)
AcceptStep == Len(backlog') < Len(backlog)
MonitorStep == showEmoji' # showEmoji
ScanStep(s) == rpc[s] = "scan" /\ rpc'[s] = "msg"
ProcessStep(s) == rpc[s] = "msg" /\ rpc'[s] = "scan"
ExitStep(s) == rpc[s] = "scan" /\ rpc'[s] = "done"

Accepted(s) == rpc[s] # "none"
Last(q) == q[Len(q)]

(***************************************************************************)
(* C1: when a connection is superseded while its read loop runs, the old   *)
(* socket is closed once (the loop's exit does not close it again) and no  *)
(* line of the old socket is appended after the Accept.                    *)
(***************************************************************************)
C1_SupersededClosedOnceNoLateAppend ==
    [][\A s \in Sock :
        /\ (ExitStep(s) /\ conn # s => closeCount'[s] = 1)
        /\ (ProcessStep(s) /\ conn # s => logs' = logs)]_vars

(***************************************************************************)
(* C2: every accepted socket other than the installed one has been closed, *)
(* and the installed one is the one accepted last.                         *)
(***************************************************************************)
C2_OnlyInstalledOpen ==
    /\ \A s \in Sock : Accepted(s) /\ s # conn => closeCount[s] >= 1
    /\ conn = nSock - Len(backlog)

C2_Witness ==
    /\ conn = 2
    /\ closeCount[1] = 1
    /\ rpc[1] \in {"scan", "msg"}

(***************************************************************************)
(* C3: in every collector source an Accept leaves alive true and           *)
(* lastHeartbeat equal to the time of the Accept.                          *)
(***************************************************************************)
C3_AcceptConnects ==
    [][AcceptStep => alive' /\ lastHeartbeat' = now]_vars

(***************************************************************************)
(* C4: a monitor tick that finds a socket installed and more than          *)
(* heartbeatTimer elapsed since lastHeartbeat sets alive false; a          *)
(* heartbeat then handled on that socket, still open, sets alive true      *)
(* with no Accept.                                                         *)
(***************************************************************************)
C4_StaleThenRevived ==
    [][/\ (MonitorStep /\ conn # Nil /\ now - lastHeartbeat > heartbeatTimer
              => ~alive')
       /\ \A s \in Sock :
            ProcessStep(s) /\ msg[s] = heartbeat /\ s = conn
                /\ closeCount[s] = 0
              => alive' /\ conn' = conn /\ backlog' = backlog]_vars

C4_Witness ==
    /\ nSock = 1
    /\ conn = 1
    /\ closeCount[1] = 0
    /\ rpc[1] = "scan"
    /\ demoted
    /\ alive

(***************************************************************************)
(* C5, as claimed: alive implies that a heartbeat or payload line was      *)
(* handled within the last heartbeatTimer seconds.                         *)
(***************************************************************************)
C5_AliveImpliesRecentLine ==
    alive => now - lastLineAt <= heartbeatTimer

(***************************************************************************)
(* C5, amended: right after a monitor tick, alive implies that a socket is *)
(* installed and lastHeartbeat is at most heartbeatTimer old, where        *)
(* lastHeartbeat is stamped by an Accept or a heartbeat line and by        *)
(* nothing else.                                                           *)
(***************************************************************************)
C5_AfterTickAliveImpliesRecentStamp ==
    [][/\ (MonitorStep /\ alive'
              => conn' # Nil /\ now' - lastHeartbeat' <= heartbeatTimer)
       /\ (lastHeartbeat' # lastHeartbeat
              => /\ lastHeartbeat' = now
                 /\ \/ AcceptStep
                    \/ \E s \in Sock : ProcessStep(s) /\ msg[s] = heartbeat)
      ]_vars

C5_Witness ==
    /\ uiConnected
    /\ alive
    /\ now > heartbeatTimer
    /\ lastLineAt # lastHeartbeat

(***************************************************************************)
(* C6, as claimed: handling a payload line sets alive true and refreshes   *)
(* lastHeartbeat.                                                          *)
(***************************************************************************)
C6_PayloadTouches ==
    [][\A s \in Sock :
        ProcessStep(s) /\ msg[s] # heartbeat
          => alive' /\ lastHeartbeat' = now]_vars

(***************************************************************************)
(* C6, amended: handling a payload line appends it and leaves alive and    *)
(* lastHeartbeat as they were, so the monitor marks a connection stale     *)
(* that has sent payload lines only for longer than heartbeatTimer.        *)
(***************************************************************************)
C6_PayloadDoesNotTouch ==
    [][/\ \A s \in Sock :
            ProcessStep(s) /\ msg[s] # heartbeat
              => /\ alive' = alive
                 /\ lastHeartbeat' = lastHeartbeat
                 /\ Len(logs') = Len(logs) + 1
       /\ (MonitorStep /\ conn # Nil /\ now - lastHeartbeat > heartbeatTimer
              => ~alive' /\ ~uiConnected')]_vars

C6_Witness ==
    /\ nSock = 1
    /\ conn = 1
    /\ closeCount[1] = 0
    /\ rpc[1] = "scan"
    /\ demoted
    /\ ~alive
    /\ logSrc # <<>>
    /\ Last(logSrc).src = 1
    /\ lastLineAt > lastHeartbeat + heartbeatTimer

(***************************************************************************)
(* C7: when the read loop of the installed connection ends, its socket is  *)
(* closed, alive is false and no socket is installed any more.             *)
(***************************************************************************)
C7_ExitUninstalls ==
    [][\A s \in Sock :
        ExitStep(s) /\ conn = s
          => closeCount'[s] >= 1 /\ ~alive' /\ conn' = Nil]_vars

(***************************************************************************)
(* The log entries a connection has appended from complete lines, and the  *)
(* complete lines its read loop has handled.                               *)
(***************************************************************************)
Indices(n) == [i \in 1..n |-> i]

LinesLoggedBy(s) ==
    LET idx == SelectSeq(Indices(Len(logs)),
                         LAMBDA i : logSrc[i].src = s /\ ~logSrc[i].frag)
    IN  [k \in 1..Len(idx) |-> logs[idx[k]]]

Handled(s) ==
    IF rpc[s] = "msg" THEN SubSeq(rcvd[s], 1, Len(rcvd[s]) - 1) ELSE rcvd[s]

(***************************************************************************)
(* C8: with no key pressed, the producer's heartbeat ticks put nothing but *)
(* the sentinel line on the wire and the collector's log stays empty.      *)
(***************************************************************************)
C8_HeartbeatOnly ==
    /\ logs = <<>>
    /\ \A s \in Sock :
        \A i \in 1..Len(wire[s]) : wire[s][i].text = heartbeat

C9_FramingInv ==
    \A s \in Sock :
        LET payload == SelectSeq(Handled(s),
                          LAMBDA it : it.nl /\ dropCR(it.text) # heartbeat)
        IN  LinesLoggedBy(s) =
                [k \in 1..Len(payload) |->
                    colorizeLog(dropCR(payload[k].text))]

C10_PartialNotEmitted ==
    [][\A s \in Sock :
        ProcessStep(s) /\ ~Last(rcvd[s]).nl
          => UNCHANGED <<logs, alive, lastHeartbeat>>]_vars

(***************************************************************************)
(* The severity of a raw line, as section 3 of the design states it, and   *)
(* the colour markup that stands for it in the stored entry.               *)
(***************************************************************************)
SeverityOf(raw) ==
    IF Contains(raw, InfoMsg) THEN "INFO"
    ELSE IF Contains(raw, WarningWord) THEN "WARNING"
    ELSE IF Contains(raw, ErrorWord) THEN "ERROR"
    ELSE "OTHER"

Painted(sev, raw) ==
    CASE sev = "INFO" -> Green \o raw \o White
      [] sev = "WARNING" -> Yellow \o raw \o White
      [] sev = "ERROR" -> Red \o raw \o White
      [] OTHER -> raw

SeverityName(f) ==
    CASE f = InfoMsg -> "INFO"
      [] f = WarningWord -> "WARNING"
      [] f = ErrorWord -> "ERROR"
      [] OTHER -> "ALL"

\* the entries of the store whose raw line satisfies a test, in order
EntriesWhere(Test(_)) ==
    LET idx == SelectSeq(Indices(Len(logs)), LAMBDA i : Test(logSrc[i].raw))
    IN  [k \in 1..Len(idx) |-> logs[idx[k]]]

(***************************************************************************)
(* C11: the ALL query returns every entry appended so far, once, in the    *)
(* order the appends took effect, whichever connections appended them; an  *)
(* append never removes, moves or changes an entry that is in the store.   *)
(***************************************************************************)
C11_AllInv ==
    /\ Len(logs) = Len(logSrc)
    /\ GetFilteredLogs(logs, AllWord) =
           [i \in 1..Len(logSrc) |-> colorizeLog(logSrc[i].raw)]

C11_AllInAppendOrder ==
    /\ []C11_AllInv
    /\ [][/\ Len(logs') >= Len(logs)
          /\ SubSeq(logs', 1, Len(logs)) = logs]_vars

C11_Witness ==
    /\ viewOf.kind = "filter"
    /\ viewOf.filter = AllWord
    /\ Len(view) = 2
    /\ view = logs
    /\ logSrc[1].src = 2
    /\ logSrc[2].src = 1

(***************************************************************************)
(* C12: an entry is marked INFO if its raw line contains "INFO", else      *)
(* WARNING if it contains "WARNING", else ERROR if it contains "ERROR",    *)
(* else it is left unmarked; the match is case-sensitive.                  *)
(***************************************************************************)
C12_Classification ==
    /\ \A i \in 1..Len(logs) :
          logs[i] = Painted(SeverityOf(logSrc[i].raw), logSrc[i].raw)
    /\ \A raw \in StoreLines \cup {InfoMsg, WarningWord, Empty} :
          colorizeLog(raw) = Painted(SeverityOf(raw), raw)

C12_Witness ==
    /\ Len(logs) = 3
    /\ logSrc[1].raw = InfoError
    /\ logs[1] = Green \o InfoError \o White
    /\ logSrc[2].raw = LowInfo
    /\ logs[2] = LowInfo
    /\ logSrc[3].raw = ErrorWord
    /\ logs[3] = Red \o ErrorWord \o White

(***************************************************************************)
(* C13: the filter query for INFO, WARNING or ERROR returns the entries    *)
(* classified so when they were stored, in order, and no others.           *)
(***************************************************************************)
C13_FilterIsClassification ==
    \A f \in LogTypes :
        GetFilteredLogs(logs, f) =
            EntriesWhere(LAMBDA raw : SeverityOf(raw) = SeverityName(f))

(***************************************************************************)
(* C14: the search query with a non-empty text returns the entries whose   *)
(* raw line contains the text, letter case ignored, in order, and no       *)
(* others.                                                                 *)
(***************************************************************************)
C14_SearchIsOnRawText ==
    \A q \in Queries \ {Empty} :
        GetSearchFilteredLogs(logs, q) =
            EntriesWhere(LAMBDA raw : Contains(ToLower(raw), ToLower(q)))

(***************************************************************************)
(* C15: the search query with the empty text returns what the ALL filter   *)
(* returns.                                                                *)
(***************************************************************************)
C15_EmptySearchIsAll ==
    /\ GetSearchFilteredLogs(logs, Empty) = GetFilteredLogs(logs, AllWord)
    /\ (viewOf.kind = "search" /\ viewOf.query = Empty
           => view = GetFilteredLogs(viewOf.at, AllWord))

C15_Witness ==
    /\ viewOf.kind = "search"
    /\ viewOf.query = Empty
    /\ Len(view) = 2
    /\ view = logs

(***************************************************************************)
(* C16: the query that takes a severity and a search text returns the      *)
(* entries that pass the filter query and the search query both, in order; *)
(* with the empty search text it returns what the filter query returns.    *)
(***************************************************************************)
PassesBoth(log, q, f) ==
    /\ GetFilteredLogs(<<log>>, f) = <<log>>
    /\ GetSearchFilteredLogs(<<log>>, q) = <<log>>

KeyStep == nKeys' = nKeys + 1
DrawStep == keyPc = "draw" /\ keyPc' # "draw"
SelectStep == keyPc = "select" /\ keyPc' # "select"
SenderLogStep == sndPc = "log" /\ sndPc' = "select"
BeatStep == nBeats' = nBeats + 1
ConnectStep == hbPc \in {"start", "connect"} /\ hbPc' # hbPc

(***************************************************************************)
(* C18: every log message the key handler took is either written to the   *)
(* socket without error or answered by a diagnostic entry in the           *)
(* producer's own logs: at the handler's select (handed to the sender, or  *)
(* "Failed to send log to server." appended) and at the sender (written,   *)
(* or an entry appended).                                                  *)
(***************************************************************************)
WrittenInFull == pConn # Nil /\ isConnected /\ pConn' = pConn

C18_NoSilentDrop ==
    [][/\ (SelectStep =>
              \/ sndMsg' = keyMsg
              \/ Items(pLogs') = Append(Items(pLogs), FailedMsg))
       /\ (SenderLogStep =>
              \/ WrittenInFull
              \/ Len(Items(pLogs')) > Len(Items(pLogs)))]_vars

(***************************************************************************)
(* C19: a key pressed while isConnected is false appends one "Connection   *)
(* is broken. Unable to send log." entry to the producer's logs, hands     *)
(* nothing to the sender, and leaves conn and isConnected as they were;    *)
(* the handler then redraws and returns without appending more.            *)
(***************************************************************************)
C19_RejectedLocally ==
    [][/\ (KeyStep /\ ~isConnected =>
              /\ Items(pLogs') = Append(Items(pLogs), BrokenMsg)
              /\ keyMsg' = Empty
              /\ UNCHANGED <<sndPc, sndMsg, pConn, isConnected, eof, wire>>)
       /\ (DrawStep /\ keyMsg = Empty =>
              /\ keyPc' = "idle"
              /\ UNCHANGED <<pLogs, sndPc, sndMsg, pConn, isConnected, eof,
                             wire>>)]_vars

C19_Witness ==
    /\ keyPc = "idle"
    /\ ~isConnected
    /\ pConn = Nil
    /\ nSock = 1
    /\ Items(pLogs) = <<LogText("I", 0), BrokenMsg>>
    /\ pViewOf.at = Items(pLogs)

(***************************************************************************)
(* C20: a write that fails closes the socket, clears conn and sets         *)
(* isConnected false, and the producer runs on; a heartbeat tick that      *)
(* leaves isConnected false goes on to connect(), and a connect() whose    *)
(* dial succeeds installs the new socket and sets isConnected true; while  *)
(* the tickers fire, a disconnected producer reaches that connect() and    *)
(* the connect() returns.                                                  *)
(***************************************************************************)
C20_FailureThenReconnect ==
    /\ [][/\ (pConn # Nil /\ pConn' = Nil /\ ~ConnectStep =>
                 eof'[pConn] /\ ~isConnected' /\ ~stopped')
          /\ (pConn = Nil => ~isConnected)
          /\ (BeatStep /\ ~isConnected' => hbPc' = "connect")
          /\ (ConnectStep /\ nSock' > nSock =>
                 isConnected' /\ pConn' = nSock' /\ ~eof'[pConn'])]_vars
    /\ (~isConnected /\ ~stopped /\ nBeats < MaxBeats
           /\ hbPc \in {"idle", "send"})
          ~> (stopped \/ hbPc = "connect")
    /\ (hbPc = "connect" /\ ~stopped) ~> (stopped \/ hbPc = "send")

C20_Witness ==
    /\ isConnected
    /\ pConn = 2
    /\ eof[1]
    /\ hbPc = "send"
    /\ nBeats = 1
    /\ wire[1] = <<>>

(***************************************************************************)
(* C17: what a query returned is the answer to that query on the logs as   *)
(* they were at the moment it ran, whole entries only, and stays so while  *)
(* later appends extend the logs; this holds for the collector's queries   *)
(* and for the slice the producer's GetLogs(limit) returned.               *)
(***************************************************************************)
IsPrefix(p, q) == Len(p) <= Len(q) /\ SubSeq(q, 1, Len(p)) = p

LastN(q, n) == IF Len(q) > n THEN SubSeq(q, Len(q) - n + 1, Len(q)) ELSE q

Answer(v) ==
    CASE v.kind = "filter" -> GetFilteredLogs(v.at, v.filter)
      [] v.kind = "search" -> GetSearchFilteredLogs(v.at, v.query)
      [] v.kind = "both" ->
             LogManager_GetSearchFilteredLogs(v.at, v.query, v.filter)
      [] OTHER -> <<>>

C17_Snapshot ==
    /\ view = Answer(viewOf)
    /\ IsPrefix(viewOf.at, logs)
    /\ \A i \in 1..Len(viewOf.at) : viewOf.at[i] = colorizeLog(logSrc[i].raw)
    /\ ViewItems(pView, pLogs) = LastN(pViewOf.at, pViewOf.limit)
    /\ IsPrefix(pViewOf.at, Items(pLogs))

C17_Witness ==
    /\ viewOf.kind = "filter"
    /\ viewOf.filter = AllWord
    /\ Len(view) = 1
    /\ Len(logs) = 2
    /\ pView.shared
    /\ pViewOf.limit = 2
    /\ Len(pViewOf.at) = 3
    /\ pLogs.len = 4

(***************************************************************************)
(* C21: connect() called with a socket installed closes that socket once   *)
(* and no other; the producer never has more than one socket it opened and *)
(* did not close, and that one is the installed one; after connect() the   *)
(* flag isConnected is true exactly when the dial succeeded, and no socket *)
(* is installed when it failed.                                            *)
(***************************************************************************)
DialStep ==
    /\ nBeats' = nBeats
    /\ sndPc' = sndPc
    /\ nKeys' = nKeys
    /\ stopped' = stopped
    /\ (nSock' > nSock \/ pConn' # pConn)

OpenedNotClosed == {s \in 1..nSock : pCloseCount[s] = 0}

C21_OneOpenInv ==
    /\ OpenedNotClosed \subseteq {pConn}
    /\ \A s \in Sock : pCloseCount[s] <= 1

C21_ConnectIdempotent ==
    /\ []C21_OneOpenInv
    /\ [][DialStep =>
            /\ pCloseCount' = CloseIfSet(pCloseCount, pConn)
            /\ isConnected' = (nSock' > nSock)
            /\ pConn' = (IF nSock' > nSock THEN nSock' ELSE Nil)]_vars

\* connect() ran with socket 1 installed: no heartbeat tick came before
C21_Witness ==
    /\ nBeats = 0
    /\ pCloseCount[1] = 1
    /\ pConn = 2
    /\ isConnected
    /\ OpenedNotClosed = {2}

(***************************************************************************)
(* C22: when the accept loop's body runs a second time with the socket     *)
(* that is installed, the socket stays installed, the second run does not  *)
(* close it, and it is closed at most once as long as it is the installed  *)
(* one.                                                                    *)
(***************************************************************************)
AcceptAgainStep == rpcAgain = NoAgain /\ rpcAgain' # NoAgain

OpsDone(w) ==
    IF wpc[w] = Idle THEN <<>>
    ELSE SubSeq(Paths(w)[wpc[w].path], 1, wpc[w].at - 1)

CountOf(q, o) == Cardinality({i \in 1..Len(q) : q[i] = o})

Holds(w, l) == CountOf(OpsDone(w), Lock(l)) > CountOf(OpsDone(w), Unlock(l))

Held(w) == {l \in Locks : Holds(w, l)}

AtOp(w, kind) == wpc[w] # Idle /\ Op(w).op = kind

(***************************************************************************)
(* C23: at most one goroutine of the producer is inside a section that     *)
(* writes on the socket, and the chunks on the socket are whole lines one  *)
(* after the other: a line's first part is followed by its own second      *)
(* part, and a goroutine in the middle of a line holds connMutex.          *)
(***************************************************************************)
C23_FrameAtomic ==
    /\ Cardinality({w \in ProducerWorkers : Holds(w, "connMutex")}) <= 1
    /\ \A i \in 1..Len(stream) :
          /\ (stream[i].part = "head" /\ i < Len(stream)
                 => stream[i + 1] = [stream[i] EXCEPT !.part = "tail"])
          /\ (stream[i].part = "tail" /\ i > 1
                 => stream[i - 1] = [stream[i] EXCEPT !.part = "head"])
          /\ (stream[i].part = "head" /\ i = Len(stream)
                 => Holds(stream[i].by, "connMutex"))

\* the sender is in the middle of a line after a probe, and the heartbeat
\* goroutine waits for connMutex
C23_Witness ==
    /\ Len(stream) >= 2
    /\ stream[Len(stream)].part = "head"
    /\ stream[Len(stream) - 1].part = "whole"
    /\ AtOp("beat", "lock")
    /\ mu["connMutex"] = "sender"

(***************************************************************************)
(* C24: in the scenario of one INFO line, a cut longer than the timeout    *)
(* and a return with a heartbeat, the store never holds more than the one  *)
(* entry; the monitor shows the connection as lost when the cut has lasted *)
(* MaxTime seconds; and once the heartbeat of the new connection has been  *)
(* handled the store holds exactly that entry, the new socket is installed *)
(* and alive is true.                                                      *)
(***************************************************************************)
ScenarioDone ==
    /\ nPeer = 5
    /\ Quiescent
    /\ \A s \in Sock : wire[s] = <<>> /\ buf[s] = <<>>

C24_Inv ==
    /\ Len(logs) <= 1
    /\ (ScenarioDone =>
          /\ logs = <<colorizeLog(BootLine)>>
          /\ conn = 2
          /\ alive)

C24_Scenario ==
    /\ []C24_Inv
    /\ [][MonitorStep /\ nPeer = 3 /\ now = MaxTime => ~uiConnected']_vars

(***************************************************************************)
(* C25: once binding the listen port has failed the collector does not     *)
(* serve: main has returned, and the monitor publishes no status.          *)
(***************************************************************************)
C25_BindFailureIsFatal ==
    /\ [](ln = "failed" => mainPc = "exited")
    /\ [][ln = "failed" => ~MonitorStep]_vars

(***************************************************************************)
(* C26: the status update queued at a tick carries connected = (a socket   *)
(* is installed and alive is true) as the critical section of that tick    *)
(* left them, and the blink phase an update is drawn with is the negation  *)
(* of the phase the update before it was drawn with.                       *)
(***************************************************************************)
QueueStep == mpc = "tick" /\ mpc' = "toggle"
StatusDrawStep == Len(pending') < Len(pending)

C26_StatusTuple ==
    [][/\ (QueueStep => Last(pending') = (conn' # Nil /\ alive'))
       /\ (StatusDrawStep /\ drawn # NoDraw => drawn'.emoji = ~drawn.emoji)
      ]_vars

(***************************************************************************)
(* C27: a blink tick that is due can be taken in every state: the          *)
(* collector's monitor can tick, and so can the producer's status ticker   *)
(* once the producer has started, whatever the heartbeat goroutine, the    *)
(* sender and the network are doing.                                       *)
(***************************************************************************)
C27_BlinkNeverBlocked ==
    /\ ENABLED MonitorTick
    /\ (hbPc # "start" /\ ~stopped => ENABLED BlinkTick)

(***************************************************************************)
(* C28: the read loop of a socket that is not the installed one changes    *)
(* neither alive nor lastHeartbeat, be it by a heartbeat it still handles  *)
(* or by its exit.                                                         *)
(***************************************************************************)
C28_OwnershipOfConnState ==
    [][\A s \in Sock :
        (ProcessStep(s) \/ ExitStep(s)) /\ conn # s
          => UNCHANGED <<alive, lastHeartbeat>>]_vars

(***************************************************************************)
(* C29: whenever alive is true a socket is installed and the collector has *)
(* not closed it.                                                          *)
(***************************************************************************)
C29_AliveMeansOpen == alive => conn # Nil /\ closeCount[conn] = 0

(***************************************************************************)
(* C30: no goroutine holds two mutexes at once; a goroutine that waits,    *)
(* for a mutex or for the sender to receive, waits for one that is not     *)
(* waiting itself; and while some goroutine is on its way some step can be *)
(* taken.                                                                  *)
(***************************************************************************)
WaitsFor(w) ==
    IF AtOp(w, "lock") /\ ~Free(Op(w).arg) THEN {mu[Op(w).arg]}
    ELSE IF AtOp(w, "send") /\ wpc["sender"] # Idle THEN {"sender"}
    ELSE {}

Blocked(w) == WaitsFor(w) # {}

C31_FrameOfMonitorAndTouch ==
    [][/\ (MonitorStep =>
              UNCHANGED <<conn, lastHeartbeat, logs, closeCount, backlog,
                          readVars, eof, wire>>)
       /\ \A s \in Sock :
            ProcessStep(s) /\ IsHeartbeat(msg[s]) =>
              /\ UNCHANGED <<conn, logs, closeCount, backlog, eof, wire>>
              /\ alive'
              /\ lastHeartbeat' = now]_vars

\* the monitor has marked the connection stale, its socket is installed
\* and open, and a heartbeat handled since then has stamped lastHeartbeat
C31_Witness ==
    /\ demoted
    /\ conn = 1
    /\ closeCount[1] = 0
    /\ rpc[1] = "scan"
    /\ alive
    /\ lastHeartbeat = MaxTime
    /\ logs = <<>>

(***************************************************************************)
(* C32: a read loop whose socket is closed, by the peer or by the          *)
(* collector, ends: its deferred function runs, and it runs once, the loop *)
(* staying ended from then on; while it runs it closes its socket once.    *)
(***************************************************************************)
SocketClosed(s) == Accepted(s) /\ (eof[s] \/ closeCount[s] > 0)

C32_ReadLoopsTerminate ==
    /\ \A s \in Sock : SocketClosed(s) ~> rpc[s] = "done"
    /\ [][\A s \in Sock :
            /\ (rpc[s] = "done" => rpc'[s] = "done")
            /\ (ExitStep(s) => closeCount'[s] = closeCount[s] + 1)]_vars

\* the loop of a socket closed by a later Accept has ended, and so has the
\* loop of the socket whose peer closed it
C32_Witness ==
    /\ conn = 2
    /\ rpc[1] = "done"
    /\ rpc[2] = "done"
    /\ closeCount[1] = 2
    /\ closeCount[2] = 1

(***************************************************************************)
(* C33: when Accept has failed on a closed listener, the accept loop's     *)
(* next step is to leave the loop: it does not call Accept again.          *)
(***************************************************************************)
AcceptErrorStep == apc = "failed" /\ apc' # apc

C33_ClosedListenerEndsAcceptLoop ==
    [][ln = "closed" /\ AcceptErrorStep => apc' = "returned"]_vars

(***************************************************************************)
(* C34: between the producer's critical sections isConnected is true       *)
(* exactly when a socket is installed, and the installed socket is one the *)
(* producer has not closed.                                                *)
(***************************************************************************)
C34_ProducerConnInv ==
    /\ isConnected <=> pConn # Nil
    /\ pConn # Nil => pCloseCount[pConn] = 0

\* a write failed on the first socket, which was closed and cleared, and a
\* later connect() installed the second
C34_Witness ==
    /\ pConn = 2
    /\ isConnected
    /\ pCloseCount[1] = 1
    /\ sndPc = "select"
    /\ hbPc = "idle"
    /\ nBeats > 0

(***************************************************************************)
(* C35: the handler's select is never blocked; taken while the sender is   *)
(* busy with an earlier write, it drops the message: the sender is left    *)
(* alone and one "Failed to send log to server." entry is appended right   *)
(* after the entry of the message, the redraw that ends the handler        *)
(* appending nothing more.                                                 *)
(***************************************************************************)
SenderBusy == sndPc \in {"log", "hb"}

C35_BusySenderDropsMessage ==
    /\ [](keyPc = "select" => ENABLED KeySend)
    /\ [][/\ (SelectStep /\ SenderBusy =>
                 /\ Last(Items(pLogs)) = keyMsg
                 /\ Items(pLogs') = Append(Items(pLogs), FailedMsg)
                 /\ UNCHANGED <<sndPc, sndMsg>>
                 /\ keyPc' = "draw")
          /\ (DrawStep => UNCHANGED pLogs)]_vars

\* a second message was dropped while the sender was writing the first, and
\* the handler has returned
C35_Witness ==
    /\ keyPc = "idle"
    /\ sndPc = "log"
    /\ sndMsg = LogText("I", 0)
    /\ Items(pLogs) = <<LogText("I", 0), LogText("I", 0), FailedMsg>>

(***************************************************************************)
(* C36: while the installed connection's read loop runs and the stamp of   *)
(* the last heartbeat handled, or of the Accept, is at most heartbeatTimer *)
(* old, a monitor tick leaves alive true and a status published as         *)
(* connected stays so.                                                     *)
(***************************************************************************)
Fresh ==
    /\ conn # Nil
    /\ closeCount[conn] = 0
    /\ rpc[conn] \in {"scan", "msg"}
    /\ now - lastHeartbeat <= heartbeatTimer

C36_NoFalseDemotion ==
    [][MonitorStep /\ Fresh =>
          /\ (alive => alive')
          /\ (uiConnected => uiConnected')]_vars

(***************************************************************************)
(* C37: a press of the quit key stops the application, whatever the state  *)
(* of the connection, and appends nothing to the producer's logs.          *)
(***************************************************************************)
QuitStep == \E k \in StopKeys : KeyPress(k)

C37_QuitAlwaysStops ==
    [][QuitStep => stopped' /\ UNCHANGED pLogs]_vars

====
